---- MODULE Spec2Model ----
(***************************************************************************)
(* A model of penrose's Workspace (src/src/workspace.rs): a ring of client *)
(* window ids and a ring of layouts, each with a focused position.         *)
(*                                                                         *)
(* Workspace's methods are translated from workspace.rs.  The Ring they    *)
(* delegate to (crate::data_types::Ring) and the Layout they call          *)
(* (crate::layout::Layout) are not part of workspace.rs: the Ring_* and    *)
(* Layout_* operators below follow the written specification of those      *)
(* components, and, where that text and the tests of workspace.rs          *)
(* disagree (a drag across the ends of the ring), the tests.               *)
(*                                                                         *)
(* Option<T> is a sequence of length 0 (None) or 1 (Some(x)).  Indices are *)
(* 0-based as in the source; elements[i + 1] is the element at index i.    *)
(* A panic (a failed unwrap, panic!) is an outcome of an operation: the    *)
(* operation's result names its cause and the workspace takes no further   *)
(* step.                                                                   *)
(***************************************************************************)
EXTENDS Integers, Sequences, FiniteSets

\* ------------------------------------------------------------------ bounds

\* Window ids are 1..NumIds.
NumIds == 3

\* add_client is offered only while the client ring holds fewer clients.
MaxClients == 3

\* Where calls made in a row are counted, the ids are 1..RunIds, the client
\* ring may hold RunIds clients if no two are equal, and a call is counted
\* up to RunCalls times.
RunIds == 4
RunCalls == 5

\* ------------------------------------------------------------ value domains

WinIds == 1..NumIds

Forward == "Forward"
Backward == "Backward"
Directions == {Forward, Backward}

More == "More"
Less == "Less"
Changes == {More, Less}

\* The step of update_main_ratio, in hundredths.
StepSizes == {5}

\* Region::new(0, 0, 2000, 1000)
Regions == {<<0, 0, 2000, 1000>>}

None == <<>>
Some(x) == <<x>>
IsSome(o) == o # None
Unwrap(o) == o[1]

NoPanic == "none"

\* A Layout is its symbol and its LayoutConf (of which follow_focus is the
\* field Workspace reads).
side_stack == [symbol |-> "[side]", conf |-> [follow_focus |-> FALSE]]
monocle == [symbol |-> "[mono]", conf |-> [follow_focus |-> TRUE]]
bottom_stack == [symbol |-> "[botm]", conf |-> [follow_focus |-> FALSE]]

\* The layout lists a Workspace is constructed with.
LayoutLists ==
    { <<>>,
      <<side_stack>>,
      <<monocle>>,
      <<monocle, side_stack>>,
      <<side_stack, monocle, bottom_stack>> }

\* HashMap<WinId, Client>: the ids that have an entry.
ClientMaps == SUBSET WinIds

\* -------------------------------------------------------------------- Ring

Ring_new(elements) ==
    [elements |-> elements,
     focus |-> IF Len(elements) > 0 THEN Some(0) ELSE None]

Ring_len(r) == Len(r.elements)

Ring_focused(r) ==
    IF r.focus = None \/ Unwrap(r.focus) >= Len(r.elements)
    THEN None
    ELSE Some(r.elements[Unwrap(r.focus) + 1])

Ring_insert(r, index, item) ==
    [elements |-> SubSeq(r.elements, 1, index) \o <<item>>
                    \o SubSeq(r.elements, index + 1, Len(r.elements)),
     focus |-> Some(index)]

\* The index of the first element equal to id (the predicate |c| c == &id).
Ring_position(r, id) ==
    LET hits == {i \in 1..Len(r.elements) : r.elements[i] = id}
    IN  IF hits = {} THEN None
        ELSE Some((CHOOSE i \in hits : \A j \in hits : i <= j) - 1)

Ring_remove_at(r, i) ==
    LET rest == SubSeq(r.elements, 1, i) \o SubSeq(r.elements, i + 2, Len(r.elements))
        n == Len(rest)
        f == Unwrap(r.focus)
    IN  [elements |-> rest,
         focus |-> IF n = 0 \/ r.focus = None THEN None
                   ELSE IF i < f THEN Some(f - 1)
                   ELSE IF i = f /\ f > n - 1 THEN Some(n - 1)
                   ELSE Some(f)]

Ring_remove_by(r, id) ==
    LET p == Ring_position(r, id)
    IN  IF p = None
        THEN [ring |-> r, ret |-> None]
        ELSE [ring |-> Ring_remove_at(r, Unwrap(p)),
              ret |-> Some(r.elements[Unwrap(p) + 1])]

Ring_remove_focused(r) ==
    IF Ring_focused(r) = None
    THEN [ring |-> r, ret |-> None]
    ELSE [ring |-> Ring_remove_at(r, Unwrap(r.focus)), ret |-> Ring_focused(r)]

Ring_focus_by(r, id) ==
    LET p == Ring_position(r, id)
    IN  IF p = None THEN r ELSE [r EXCEPT !.focus = p]

Ring_would_wrap(r, direction) ==
    /\ Len(r.elements) >= 2
    /\ r.focus # None
    /\ \/ direction = Forward /\ Unwrap(r.focus) = Len(r.elements) - 1
       \/ direction = Backward /\ Unwrap(r.focus) = 0

\* One step from the focus index in direction, wrapping at the ends.
Ring_next_index(r, direction) ==
    LET n == Len(r.elements)
        f == Unwrap(r.focus)
    IN  IF direction = Forward THEN (f + 1) % n ELSE (f + n - 1) % n

Ring_cycle_focus(r, direction) ==
    IF Ring_focused(r) = None
    THEN [ring |-> r, ret |-> None]
    ELSE LET moved == [r EXCEPT !.focus = Some(Ring_next_index(r, direction))]
         IN  [ring |-> moved, ret |-> Ring_focused(moved)]

\* The focused element changes places with its neighbour; across the ends
\* the whole ring rotates by one ([2,3,4,1] -> [1,2,3,4] going Forward from
\* the last index, [3,1,2,4] -> [1,2,4,3] going Backward from index 0).
Ring_drag_focused(r, direction) ==
    IF Len(r.elements) < 2 \/ Ring_focused(r) = None
    THEN [ring |-> r, ret |-> None]
    ELSE LET n == Len(r.elements)
             f == Unwrap(r.focus)
             other == Ring_next_index(r, direction)
             els == r.elements
             dragged ==
                 IF direction = Forward /\ other = 0
                 THEN <<els[n]>> \o SubSeq(els, 1, n - 1)
                 ELSE IF direction = Backward /\ f = 0
                 THEN SubSeq(els, 2, n) \o <<els[1]>>
                 ELSE [els EXCEPT ![f + 1] = els[other + 1],
                                  ![other + 1] = els[f + 1]]
             moved == [elements |-> dragged, focus |-> Some(other)]
         IN  [ring |-> moved, ret |-> Ring_focused(moved)]

\* ------------------------------------------------------------------ Layout

\* layout.arrange(&clients, focused, region): one ResizeAction per client.
Layout_arrange(layout, ids, focused, region) ==
    [i \in 1..Len(ids) |-> [id |-> ids[i], region |-> region]]

\* --------------------------------------------------------------- Workspace

\* An operation's outcome: the workspace after it, what it returned, and
\* the cause of its panic if it panicked (the workspace is then as the
\* operation found it, and is never used again).
\* ext lists the calls the operation made on what it was handed (the client
\* map, the layout's arrange function), in the order it made them.
Ok(ws, ret) == [ws |-> ws, ret |-> ret, panic |-> NoPanic, ext |-> <<>>]
Panic(ws, cause) == [ws |-> ws, ret |-> None, panic |-> cause, ext |-> <<>>]

NoLayouts == "require at least one layout function"
NoFocusedClient == "clients.focused().unwrap()"
NoFocusedLayout == "layouts.focused().unwrap()"
NoClientEntry == "client_map.get(id).unwrap()"

Workspace_new_unchecked(layouts) ==
    Ok([clients |-> Ring_new(<<>>), layouts |-> Ring_new(layouts)], None)

Workspace_new(layouts) ==
    IF Len(layouts) = 0
    THEN Panic([clients |-> Ring_new(<<>>), layouts |-> Ring_new(<<>>)], NoLayouts)
    ELSE Ok([clients |-> Ring_new(<<>>), layouts |-> Ring_new(layouts)], None)

len(ws) == Ring_len(ws.clients)

focused_client(ws) == Ring_focused(ws.clients)


\* add_client, had it appended the new client instead of inserting it at
\* the top of the stack.
add_client_at_back(ws, id) ==
    Ok([ws EXCEPT !.clients = Ring_insert(@, Ring_len(@), id)], None)

\* add_client, had it put the new client in front without focusing it.
add_client_unfocused(ws, id) ==
    Ok([ws EXCEPT !.clients.elements = <<id>> \o @], None)

add_client(ws, id) ==
    Ok([ws EXCEPT !.clients = Ring_insert(@, 0, id)], None)


\* focus_client, had it reported a miss (no client equal to id) as None.
focus_client_none_on_miss(ws, id) ==
    IF Ring_len(ws.clients) = 0
    THEN Ok(ws, None)
    ELSE IF Ring_focused(ws.clients) = None
    THEN Panic(ws, NoFocusedClient)
    ELSE IF Ring_position(ws.clients, id) = None
    THEN Ok(ws, None)
    ELSE Ok([ws EXCEPT !.clients = Ring_focus_by(@, id)], Ring_focused(ws.clients))

focus_client(ws, id) ==
    IF Ring_len(ws.clients) = 0
    THEN Ok(ws, None)
    ELSE IF Ring_focused(ws.clients) = None
    THEN Panic(ws, NoFocusedClient)
    ELSE Ok([ws EXCEPT !.clients = Ring_focus_by(@, id)], Ring_focused(ws.clients))


\* remove_client, had it dropped every client equal to id (a retain) and
\* not only the first.
remove_client_every(ws, id) ==
    LET r == Ring_remove_by(ws.clients, id)
        rest == SelectSeq(r.ring.elements, LAMBDA c : c # id)
    IN  Ok([ws EXCEPT !.clients =
                [elements |-> rest,
                 focus |-> IF Len(rest) = 0 THEN None
                           ELSE IF Unwrap(r.ring.focus) > Len(rest) - 1
                           THEN Some(Len(rest) - 1)
                           ELSE r.ring.focus]],
           r.ret)

\* remove_client, had it fallen back on the focused client when no client
\* equals id.
remove_client_or_focused(ws, id) ==
    LET r == Ring_remove_by(ws.clients, id)
        f == Ring_remove_focused(ws.clients)
    IN  IF r.ret = None
        THEN Ok([ws EXCEPT !.clients = f.ring], f.ret)
        ELSE Ok([ws EXCEPT !.clients = r.ring], r.ret)

\* remove_client, had it kept the focus index where it was (clamped to the
\* new length) whichever client was removed.
remove_client_same_index(ws, id) ==
    LET r == Ring_remove_by(ws.clients, id)
        n == Len(r.ring.elements)
    IN  Ok([ws EXCEPT !.clients =
                [r.ring EXCEPT !.focus =
                    IF n = 0 \/ ws.clients.focus = None THEN None
                    ELSE IF Unwrap(ws.clients.focus) > n - 1 THEN Some(n - 1)
                    ELSE ws.clients.focus]],
           r.ret)

remove_client(ws, id) ==
    LET r == Ring_remove_by(ws.clients, id)
    IN  Ok([ws EXCEPT !.clients = r.ring], r.ret)


\* remove_focused_client, had it removed the focused client by its id (the
\* first client equal to it) and not by its index.
remove_focused_client_by_id(ws) ==
    IF Ring_focused(ws.clients) = None
    THEN Ok(ws, None)
    ELSE LET r == Ring_remove_by(ws.clients, Unwrap(Ring_focused(ws.clients)))
         IN  Ok([ws EXCEPT !.clients = r.ring], r.ret)

\* remove_focused_client, had it removed the client at the top of the stack
\* while returning the focused one.
remove_focused_client_top(ws) ==
    IF Ring_focused(ws.clients) = None
    THEN Ok(ws, None)
    ELSE Ok([ws EXCEPT !.clients = Ring_remove_at(ws.clients, 0)],
            Ring_focused(ws.clients))

remove_focused_client(ws) ==
    LET r == Ring_remove_focused(ws.clients)
    IN  Ok([ws EXCEPT !.clients = r.ring], r.ret)

\* client_map.get(id) for the ids of the ring in order, up to and including
\* the first id without an entry (whose unwrap panics).
arrange_lookups(ws, client_map) ==
    LET ids == ws.clients.elements
        missing == {i \in 1..Len(ids) : ids[i] \notin client_map}
        upto == IF missing = {} THEN Len(ids)
                ELSE CHOOSE i \in missing : \A j \in missing : i <= j
    IN  [i \in 1..upto |->
            [fn |-> "client_map.get", id |-> Some(ids[i]), args |-> None]]

\* The arguments of layout.arrange, had None been passed as the focus hint.
arrange_args_no_hint(ws, screen_region) ==
    [layout |-> Unwrap(Ring_focused(ws.layouts)),
     clients |-> ws.clients.elements,
     focused |-> None,
     region |-> screen_region]

\* The arguments of layout.arrange(&clients, self.focused_client(), screen_region).
arrange_args(ws, screen_region) ==
    [layout |-> Unwrap(Ring_focused(ws.layouts)),
     clients |-> ws.clients.elements,
     focused |-> focused_client(ws),
     region |-> screen_region]

arrange(ws, screen_region, client_map) ==
    IF Ring_len(ws.clients) > 0
    THEN IF Ring_focused(ws.layouts) = None
         THEN Panic(ws, NoFocusedLayout)
         ELSE IF \E i \in 1..Len(ws.clients.elements) :
                    ws.clients.elements[i] \notin client_map
         THEN [Panic(ws, NoClientEntry) EXCEPT
                  !.ext = arrange_lookups(ws, client_map)]
         ELSE LET a == arrange_args(ws, screen_region)
              IN  [Ok(ws, Layout_arrange(a.layout, a.clients, a.focused, a.region))
                      EXCEPT !.ext = arrange_lookups(ws, client_map)
                                       \o <<[fn |-> "layout.arrange",
                                            id |-> None, args |-> Some(a)]>>]
    ELSE Ok(ws, <<>>)

layout_symbol(ws) ==
    IF Ring_focused(ws.layouts) = None
    THEN Panic(ws, NoFocusedLayout)
    ELSE Ok(ws, Unwrap(Ring_focused(ws.layouts)).symbol)

\* cycle_layout, had it read the symbol before moving the focus.
cycle_layout_stale_symbol(ws, direction) ==
    [layout_symbol(ws) EXCEPT
        !.ws = [ws EXCEPT !.layouts = Ring_cycle_focus(@, direction).ring]]

cycle_layout(ws, direction) ==
    layout_symbol([ws EXCEPT !.layouts = Ring_cycle_focus(@, direction).ring])

layout_conf(ws) ==
    IF Ring_focused(ws.layouts) = None
    THEN Panic(ws, NoFocusedLayout)
    ELSE Ok(ws, Unwrap(Ring_focused(ws.layouts)).conf)

\* cycle_client, had it returned the pair as (new, prev).
cycle_client_swapped_pair(ws, direction) ==
    IF Ring_len(ws.clients) < 2
    THEN Ok(ws, None)
    ELSE IF layout_conf(ws).panic # NoPanic
    THEN layout_conf(ws)
    ELSE IF layout_conf(ws).ret.follow_focus /\ Ring_would_wrap(ws.clients, direction)
    THEN Ok(ws, None)
    ELSE IF Ring_focused(ws.clients) = None
    THEN Ok(ws, None)
    ELSE LET prev == Unwrap(Ring_focused(ws.clients))
             c == Ring_cycle_focus(ws.clients, direction)
             after == [ws EXCEPT !.clients = c.ring]
         IN  IF c.ret = None
             THEN Ok(after, None)
             ELSE IF prev # Unwrap(c.ret)
             THEN Ok(after, Some(<<Unwrap(c.ret), prev>>))
             ELSE Ok(after, None)

\* cycle_client, had it refused to wrap when the layout does not follow focus.
cycle_client_inverted_check(ws, direction) ==
    IF Ring_len(ws.clients) < 2
    THEN Ok(ws, None)
    ELSE IF layout_conf(ws).panic # NoPanic
    THEN layout_conf(ws)
    ELSE IF ~layout_conf(ws).ret.follow_focus /\ Ring_would_wrap(ws.clients, direction)
    THEN Ok(ws, None)
    ELSE IF Ring_focused(ws.clients) = None
    THEN Ok(ws, None)
    ELSE LET prev == Unwrap(Ring_focused(ws.clients))
             c == Ring_cycle_focus(ws.clients, direction)
             after == [ws EXCEPT !.clients = c.ring]
         IN  IF c.ret = None
             THEN Ok(after, None)
             ELSE IF prev # Unwrap(c.ret)
             THEN Ok(after, Some(<<prev, Unwrap(c.ret)>>))
             ELSE Ok(after, None)

\* cycle_client, had it left out the follow_focus check.
cycle_client_unchecked(ws, direction) ==
    IF Ring_len(ws.clients) < 2
    THEN Ok(ws, None)
    ELSE IF Ring_focused(ws.clients) = None
    THEN Ok(ws, None)
    ELSE LET prev == Unwrap(Ring_focused(ws.clients))
             c == Ring_cycle_focus(ws.clients, direction)
             after == [ws EXCEPT !.clients = c.ring]
         IN  IF c.ret = None
             THEN Ok(after, None)
             ELSE IF prev # Unwrap(c.ret)
             THEN Ok(after, Some(<<prev, Unwrap(c.ret)>>))
             ELSE Ok(after, None)

cycle_client(ws, direction) ==
    IF Ring_len(ws.clients) < 2
    THEN Ok(ws, None)
    ELSE IF layout_conf(ws).panic # NoPanic
    THEN layout_conf(ws)
    ELSE IF layout_conf(ws).ret.follow_focus /\ Ring_would_wrap(ws.clients, direction)
    THEN Ok(ws, None)
    ELSE IF Ring_focused(ws.clients) = None
    THEN Ok(ws, None)
    ELSE LET prev == Unwrap(Ring_focused(ws.clients))
             c == Ring_cycle_focus(ws.clients, direction)
             after == [ws EXCEPT !.clients = c.ring]
         IN  IF c.ret = None
             THEN Ok(after, None)
             ELSE IF prev # Unwrap(c.ret)
             THEN Ok(after, Some(<<prev, Unwrap(c.ret)>>))
             ELSE Ok(after, None)


\* drag_client, had it left out the follow_focus check.
drag_client_unchecked(ws, direction) ==
    LET d == Ring_drag_focused(ws.clients, direction)
    IN  Ok([ws EXCEPT !.clients = d.ring], d.ret)

\* drag_client, had it returned the focused client after the drag whether
\* or not a client was dragged.
drag_client_returns_focused(ws, direction) ==
    IF layout_conf(ws).panic # NoPanic
    THEN layout_conf(ws)
    ELSE IF layout_conf(ws).ret.follow_focus /\ Ring_would_wrap(ws.clients, direction)
    THEN Ok(ws, None)
    ELSE LET d == Ring_drag_focused(ws.clients, direction)
         IN  Ok([ws EXCEPT !.clients = d.ring], Ring_focused(d.ring))

\* drag_client, had it called cycle_focus where it calls drag_focused.
drag_client_cycles(ws, direction) ==
    IF layout_conf(ws).panic # NoPanic
    THEN layout_conf(ws)
    ELSE IF layout_conf(ws).ret.follow_focus /\ Ring_would_wrap(ws.clients, direction)
    THEN Ok(ws, None)
    ELSE LET d == Ring_cycle_focus(ws.clients, direction)
         IN  Ok([ws EXCEPT !.clients = d.ring], d.ret)

\* drag_client, had it dragged against the direction it was given.
drag_client_reversed(ws, direction) ==
    IF layout_conf(ws).panic # NoPanic
    THEN layout_conf(ws)
    ELSE IF layout_conf(ws).ret.follow_focus /\ Ring_would_wrap(ws.clients, direction)
    THEN Ok(ws, None)
    ELSE LET d == Ring_drag_focused(ws.clients,
                                    IF direction = Forward THEN Backward ELSE Forward)
         IN  Ok([ws EXCEPT !.clients = d.ring], d.ret)

\* drag_client, had it refused to wrap when the layout does not follow focus.
drag_client_inverted_check(ws, direction) ==
    IF layout_conf(ws).panic # NoPanic
    THEN layout_conf(ws)
    ELSE IF ~layout_conf(ws).ret.follow_focus /\ Ring_would_wrap(ws.clients, direction)
    THEN Ok(ws, None)
    ELSE LET d == Ring_drag_focused(ws.clients, direction)
         IN  Ok([ws EXCEPT !.clients = d.ring], d.ret)

drag_client(ws, direction) ==
    IF layout_conf(ws).panic # NoPanic
    THEN layout_conf(ws)
    ELSE IF layout_conf(ws).ret.follow_focus /\ Ring_would_wrap(ws.clients, direction)
    THEN Ok(ws, None)
    ELSE LET d == Ring_drag_focused(ws.clients, direction)
         IN  Ok([ws EXCEPT !.clients = d.ring], d.ret)

\* The layout's own numbers (max_main, ratio) are not part of this model:
\* the call reaches the focused layout, when there is one, and leaves the
\* rings as they are.
update_max_main(ws, change) == Ok(ws, None)

update_main_ratio(ws, change, step) == Ok(ws, None)

\* ------------------------------------------------------------------- state

VARIABLES
    given,      \* the layout list Workspace::new was called with
    status,     \* "none": new panicked; "live"; "dead": a later call panicked
    clients,    \* Workspace.clients
    layouts,    \* Workspace.layouts
    last,       \* the last call: its name, arguments, the rings it found,
                \* what it returned and whether it panicked
    run,        \* the calls of cycle_client or drag_client made in a row in
                \* one direction: how many, and the client ring before the first
    caller      \* the caller's client map, and whether the caller has added an
                \* id that the client ring already held

vars == <<given, status, clients, layouts, last, run, caller>>

self == [clients |-> clients, layouts |-> layouts]

NoDir == "-"

\* What a method returned, under the name of its return type: Option<WinId>
\* (id), Option<(WinId, WinId)> (pair), &str (symbol), LayoutConf (conf),
\* Vec<ResizeAction> (actions).  The other names hold None (an empty string
\* for symbol), as all do after a panic.
Returns(op, res) ==
    LET ok == res.panic = NoPanic
    IN  [id |-> IF ok /\ op \in {"focus_client", "remove_client",
                                  "remove_focused_client", "drag_client"}
                THEN res.ret ELSE None,
         pair |-> IF ok /\ op = "cycle_client" THEN res.ret ELSE None,
         symbol |-> IF ok /\ op \in {"cycle_layout", "layout_symbol"}
                    THEN res.ret ELSE "",
         conf |-> IF ok /\ op = "layout_conf" THEN Some(res.ret) ELSE None,
         actions |-> IF ok /\ op = "arrange" THEN res.ret ELSE None]

Call(op, id, dir, map, res) ==
    [op |-> op, id |-> id, dir |-> dir, map |-> map,
     pre |-> self, ret |-> Returns(op, res), panic |-> res.panic, ext |-> res.ext]

NoRun == [op |-> "-", dir |-> NoDir, n |-> 0, start |-> Ring_new(<<>>)]

NoCaller == [registry |-> {}, twice |-> FALSE]

Init ==
    /\ given \in LayoutLists
    /\ LET res == Workspace_new(given)
       IN  /\ status = IF res.panic = NoPanic THEN "live" ELSE "none"
           /\ clients = res.ws.clients
           /\ layouts = res.ws.layouts
           /\ last = [op |-> "new", id |-> None, dir |-> NoDir, map |-> {},
                      pre |-> res.ws, ret |-> Returns("new", res),
                      panic |-> res.panic,
                      ext |-> res.ext]
    /\ run = NoRun
    /\ caller = NoCaller

\* A call on the live workspace with outcome res.
Step(op, id, dir, map, res) ==
    /\ status = "live"
    /\ clients' = res.ws.clients
    /\ layouts' = res.ws.layouts
    /\ status' = IF res.panic = NoPanic THEN "live" ELSE "dead"
    /\ last' = Call(op, id, dir, map, res)
    /\ UNCHANGED given

Do(op, id, dir, map, res) ==
    /\ Step(op, id, dir, map, res)
    /\ UNCHANGED <<run, caller>>

AddClient ==
    \E id \in WinIds :
        /\ Len(clients.elements) < MaxClients
        /\ Do("add_client", Some(id), NoDir, {}, add_client(self, id))

FocusClient ==
    \E id \in WinIds : Do("focus_client", Some(id), NoDir, {}, focus_client(self, id))

RemoveClient ==
    \E id \in WinIds : Do("remove_client", Some(id), NoDir, {}, remove_client(self, id))

RemoveFocusedClient ==
    Do("remove_focused_client", None, NoDir, {}, remove_focused_client(self))

Arrange ==
    \E region \in Regions, map \in ClientMaps :
        Do("arrange", None, NoDir, map, arrange(self, region, map))

CycleLayout ==
    \E d \in Directions : Do("cycle_layout", None, d, {}, cycle_layout(self, d))

LayoutSymbol ==
    Do("layout_symbol", None, NoDir, {}, layout_symbol(self))

LayoutConf ==
    Do("layout_conf", None, NoDir, {}, layout_conf(self))

CycleClient ==
    \E d \in Directions : Do("cycle_client", None, d, {}, cycle_client(self, d))

DragClient ==
    \E d \in Directions : Do("drag_client", None, d, {}, drag_client(self, d))

UpdateMaxMain ==
    \E c \in Changes : Do("update_max_main", None, c, {}, update_max_main(self, c))

UpdateMainRatio ==
    \E c \in Changes, s \in StepSizes :
        Do("update_main_ratio", None, c, {}, update_main_ratio(self, c, s))

Next ==
    \/ AddClient
    \/ FocusClient
    \/ RemoveClient
    \/ RemoveFocusedClient
    \/ Arrange
    \/ CycleLayout
    \/ LayoutSymbol
    \/ LayoutConf
    \/ CycleClient
    \/ DragClient
    \/ UpdateMaxMain
    \/ UpdateMainRatio

Spec == Init /\ [][Next]_vars

\* ------------------------------------------------------ calls made in a row

\* A workspace of one layout: one that lets focus wrap, or one that follows
\* focus.
RunLayoutLists == { <<side_stack>>, <<monocle>> }

RunWinIds == 1..RunIds

NoTwoEqual(seq) == \A i, j \in 1..Len(seq) : seq[i] = seq[j] => i = j

\* The count of the calls of op in direction dir made in a row, this one
\* included, and the client ring the first of them found.
Tally(op, dir) ==
    IF run.op = op /\ run.dir = dir
    THEN [run EXCEPT !.n = @ + 1]
    ELSE [op |-> op, dir |-> dir, n |-> 1, start |-> clients]

Counted(op, dir) == ~(run.op = op /\ run.dir = dir /\ run.n >= RunCalls)

InitRun ==
    /\ Init
    /\ given \in RunLayoutLists

RunAdd ==
    \E id \in RunWinIds :
        /\ \/ id \in WinIds /\ Len(clients.elements) < MaxClients
           \/ /\ Len(clients.elements) < RunIds
              /\ NoTwoEqual(<<id>> \o clients.elements)
        /\ Step("add_client", Some(id), NoDir, {}, add_client(self, id))
        /\ run' = NoRun
        /\ UNCHANGED caller

RunFocus ==
    \E id \in RunWinIds :
        /\ Step("focus_client", Some(id), NoDir, {}, focus_client(self, id))
        /\ run' = NoRun
        /\ UNCHANGED caller

RunCycle ==
    \E d \in Directions :
        /\ Counted("cycle_client", d)
        /\ Step("cycle_client", None, d, {}, cycle_client(self, d))
        /\ run' = Tally("cycle_client", d)
        /\ UNCHANGED caller

RunDrag ==
    \E d \in Directions :
        /\ Counted("drag_client", d)
        /\ Step("drag_client", None, d, {}, drag_client(self, d))
        /\ run' = Tally("drag_client", d)
        /\ UNCHANGED caller

NextRun ==
    \/ RunAdd
    \/ RunFocus
    \/ RunCycle
    \/ RunDrag

SpecRun == InitRun /\ [][NextRun]_vars

\* ------------------------------------------- a caller that keeps a registry

\* The caller puts id in its registry and calls add_client(id).
CallerAdd ==
    \E id \in WinIds :
        /\ Len(clients.elements) < MaxClients
        /\ Step("add_client", Some(id), NoDir, {}, add_client(self, id))
        /\ caller' = [registry |-> caller.registry \cup {id},
                      twice |-> caller.twice \/ IsSome(Ring_position(clients, id))]
        /\ UNCHANGED run

\* What the caller may make of its registry once a removal has returned:
\* an id that was returned may be taken out, or left in.
AfterRemoval(ret) ==
    IF ret = None
    THEN {caller.registry}
    ELSE {caller.registry, caller.registry \ {Unwrap(ret)}}

CallerRemove ==
    \E id \in WinIds :
        /\ Step("remove_client", Some(id), NoDir, {}, remove_client(self, id))
        /\ \E registry \in AfterRemoval(remove_client(self, id).ret) :
               caller' = [caller EXCEPT !.registry = registry]
        /\ UNCHANGED run

CallerRemoveFocused ==
    /\ Step("remove_focused_client", None, NoDir, {}, remove_focused_client(self))
    /\ \E registry \in AfterRemoval(remove_focused_client(self).ret) :
           caller' = [caller EXCEPT !.registry = registry]
    /\ UNCHANGED run

\* The caller hands its registry to arrange.
CallerArrange ==
    \E region \in Regions :
        /\ Step("arrange", None, NoDir, caller.registry,
                arrange(self, region, caller.registry))
        /\ UNCHANGED <<run, caller>>

NextCaller ==
    \/ CallerAdd
    \/ CallerRemove
    \/ CallerRemoveFocused
    \/ CallerArrange
    \/ FocusClient
    \/ CycleClient
    \/ DragClient

SpecCaller == Init /\ [][NextCaller]_vars

\* ------------------------------------------------------------------ claims

\* The call `last` found these clients, this focus index, this layout.
PreElements == last.pre.clients.elements
PreFocus == last.pre.clients.focus
PreLen == Len(PreElements)
PreFollowFocus ==
    /\ IsSome(Ring_focused(last.pre.layouts))
    /\ Unwrap(Ring_focused(last.pre.layouts)).conf.follow_focus

\* seq without its element at (0-based) index i.
Without(seq, i) ==
    [k \in 1..(Len(seq) - 1) |-> IF k <= i THEN seq[k] ELSE seq[k + 1]]

Occurs(seq, x) == \E k \in 1..Len(seq) : seq[k] = x

\* The (0-based) index of the first x in seq, which holds one.
FirstIndex(seq, x) ==
    (CHOOSE k \in 1..Len(seq) : seq[k] = x /\ \A j \in 1..(k - 1) : seq[j] # x) - 1

Returned == last.panic = NoPanic

\* What the call `last` returned.
Ret ==
    CASE last.op = "cycle_client" -> last.ret.pair
      [] last.op \in {"cycle_layout", "layout_symbol"} -> last.ret.symbol
      [] last.op = "layout_conf" -> Unwrap(last.ret.conf)
      [] last.op = "arrange" -> last.ret.actions
      [] OTHER -> last.ret.id

\* The id the call `last` was given.
CallId == Unwrap(last.id)

\* C1: in every reachable state the client ring's focus index is None
\* exactly when the ring is empty and otherwise lies in [0, len);
\* focused_client() is Some iff len() > 0; and no call has failed on the
\* unwrap of the focused client in focus_client.
C1_FocusValid ==
    /\ (clients.focus = None) <=> (Len(clients.elements) = 0)
    /\ IsSome(clients.focus) =>
           Unwrap(clients.focus) \in 0..(Len(clients.elements) - 1)
    /\ IsSome(focused_client(self)) <=> (len(self) > 0)
    /\ last.panic # NoFocusedClient

\* focus_client moved the focus of a ring of three clients to its last index.
C1_Witness ==
    /\ last.op = "focus_client"
    /\ Returned
    /\ IsSome(Ret)
    /\ Len(clients.elements) = 3
    /\ PreFocus = Some(0)
    /\ clients.focus = Some(2)

\* C2: Workspace::new panics iff the layout list it is given is empty; a
\* constructed workspace has a non-empty layout ring with a focused layout
\* in every reachable state, and no call (layout_symbol, layout_conf,
\* cycle_layout, arrange, or a caller of those) has failed for lack of a
\* focused layout.
C2_LayoutsNeverEmpty ==
    /\ (status = "none") <=> (Len(given) = 0)
    /\ last.op = "new" => ((last.panic = NoLayouts) <=> (Len(given) = 0))
    /\ status # "none" =>
           /\ Len(layouts.elements) > 0
           /\ IsSome(Ring_focused(layouts))
    /\ last.panic # NoFocusedLayout

\* arrange ran the third layout of three on a non-empty client ring.
C2_Witness ==
    /\ last.op = "arrange"
    /\ Returned
    /\ Len(Ret) > 0
    /\ Len(layouts.elements) = 3
    /\ layouts.focus = Some(2)

\* C3: after add_client(id), id is the focused client and stands at index
\* 0, len() has grown by one, and the clients already present follow in
\* their previous order.
C3_AddClientFront ==
    last.op = "add_client" =>
        /\ Returned
        /\ focused_client(self) = Some(CallId)
        /\ clients.focus = Some(0)
        /\ clients.elements[1] = CallId
        /\ len(self) = PreLen + 1
        /\ Tail(clients.elements) = PreElements

\* Adding 1, 2, 3 in turn has given the order [3, 2, 1].
C3_Witness ==
    /\ last.op = "add_client"
    /\ CallId = 3
    /\ PreElements = <<2, 1>>
    /\ clients.elements = <<3, 2, 1>>

\* C4: after remove_client(id), len() is one less if id was in the client
\* ring and the same otherwise; if id was there, the call returns Some(id)
\* and the other clients keep their order.
C4_RemoveClientLen ==
    last.op = "remove_client" =>
        /\ Returned
        /\ IF Occurs(PreElements, CallId)
           THEN /\ len(self) = PreLen - 1
                /\ Ret = Some(CallId)
                /\ \E i \in 0..(PreLen - 1) :
                       /\ PreElements[i + 1] = CallId
                       /\ clients.elements = Without(PreElements, i)
           ELSE len(self) = PreLen

\* remove_client took one of two equal clients out of a ring of three.
C4_Witness ==
    /\ last.op = "remove_client"
    /\ PreElements = <<1, 2, 1>>
    /\ CallId = 1
    /\ Ret = Some(1)
    /\ clients.elements = <<2, 1>>

\* C5: remove_client(id) with id not in the client ring returns None and
\* leaves the ring's contents, order and focus index as they were.
C5_RemoveAbsentUnchanged ==
    (last.op = "remove_client" /\ ~Occurs(PreElements, CallId)) =>
        /\ Returned
        /\ Ret = None
        /\ clients = last.pre.clients

\* remove_client of an absent id on a ring of two focused on its second.
C5_Witness ==
    /\ last.op = "remove_client"
    /\ ~Occurs(PreElements, CallId)
    /\ PreLen = 2
    /\ PreFocus = Some(1)
    /\ Ret = None

C7_RemoveFocused ==
    last.op = "remove_focused_client" =>
        /\ Returned
        /\ IF PreLen = 0
           THEN Ret = None /\ clients = last.pre.clients
           ELSE /\ Ret = focused_client(last.pre)
                /\ clients.elements = Without(PreElements, Unwrap(PreFocus))
                /\ clients.focus =
                       IF PreLen = 1 THEN None
                       ELSE IF Unwrap(PreFocus) = PreLen - 1
                       THEN Some(PreLen - 2)
                       ELSE PreFocus

\* remove_focused_client removed the last of three clients, the first of
\* which has the same id.
C7_Witness ==
    /\ last.op = "remove_focused_client"
    /\ PreElements = <<1, 2, 1>>
    /\ PreFocus = Some(2)
    /\ Ret = Some(1)
    /\ clients.elements = <<1, 2>>
    /\ clients.focus = Some(1)

\* C8: focus_client(id) returns None and changes nothing on an empty client
\* ring; on a non-empty one it returns Some(the client focused before),
\* moves focus to the first client equal to id if there is one, and leaves
\* focus and contents as they were if there is none.
C8_FocusClient ==
    last.op = "focus_client" =>
        /\ Returned
        /\ clients.elements = PreElements
        /\ IF PreLen = 0
           THEN Ret = None /\ clients = last.pre.clients
           ELSE /\ Ret = focused_client(last.pre)
                /\ IsSome(Ret)
                /\ clients.focus =
                       IF Occurs(PreElements, CallId)
                       THEN Some(FirstIndex(PreElements, CallId))
                       ELSE PreFocus

\* focus_client of an absent id returned the focused client of a ring of two.
C8_Witness ==
    /\ last.op = "focus_client"
    /\ PreElements = <<1, 2>>
    /\ PreFocus = Some(1)
    /\ CallId = 3
    /\ Ret = Some(2)
    /\ clients = last.pre.clients

\* The focused client of the call `last` stood where a step in the call's
\* direction leaves the ring: the last index going Forward, index 0 going
\* Backward.
PreAtBoundary ==
    /\ IsSome(PreFocus)
    /\ \/ last.dir = Forward /\ Unwrap(PreFocus) = PreLen - 1
       \/ last.dir = Backward /\ Unwrap(PreFocus) = 0

\* C9: with follow_focus set in the active layout's conf and the focused
\* client at the boundary a step in the given direction would wrap from,
\* cycle_client and drag_client return None and leave the client ring's
\* contents, order and focus index as they were.
C9_FollowFocusNoWrap ==
    (/\ last.op \in {"cycle_client", "drag_client"}
     /\ PreFollowFocus
     /\ PreAtBoundary) =>
        /\ Returned
        /\ Ret = None
        /\ clients = last.pre.clients

\* drag_client(Forward) was refused at the last of three clients.
C9_Witness ==
    /\ last.op = "drag_client"
    /\ last.dir = Forward
    /\ PreFollowFocus
    /\ PreLen = 3
    /\ PreFocus = Some(2)
    /\ Ret = None

\* C10: with fewer than 2 clients, cycle_client and drag_client return None,
\* do not panic, and leave the client ring as it was, in either direction
\* and whatever the active layout's follow_focus; would_wrap is false of a
\* ring of 0 or 1 element.
C10_FewerThanTwo ==
    /\ (last.op \in {"cycle_client", "drag_client"} /\ PreLen < 2) =>
           /\ Returned
           /\ Ret = None
           /\ clients = last.pre.clients
    /\ Len(clients.elements) < 2 =>
           \A d \in Directions : ~Ring_would_wrap(clients, d)

\* drag_client(Backward) on a single client under a follow_focus layout.
C10_Witness ==
    /\ last.op = "drag_client"
    /\ last.dir = Backward
    /\ PreFollowFocus
    /\ PreLen = 1
    /\ Ret = None

\* How many times x stands in seq.
Count(seq, x) == Cardinality({k \in 1..Len(seq) : seq[k] = x})

\* The index one step from index f in a ring of n, in the direction of the
\* call `last`, wrapping at the ends.
StepFrom(f, n) ==
    IF last.dir = Forward
    THEN (IF f = n - 1 THEN 0 ELSE f + 1)
    ELSE (IF f = 0 THEN n - 1 ELSE f - 1)

\* C11: when cycle_client returns Some((prev, new)), prev is the client
\* focused before the call, new the client focused after it, prev # new,
\* the focus index has moved one step in the direction modulo len(), and the
\* order and membership of the client ring are as they were.
C11_CycleClientPair ==
    (last.op = "cycle_client" /\ IsSome(Ret)) =>
        /\ Returned
        /\ Some(Unwrap(Ret)[1]) = focused_client(last.pre)
        /\ Some(Unwrap(Ret)[2]) = focused_client(self)
        /\ Unwrap(Ret)[1] # Unwrap(Ret)[2]
        /\ clients.focus = Some(StepFrom(Unwrap(PreFocus), PreLen))
        /\ clients.elements = PreElements

\* cycle_client(Backward) wrapped from the first of three clients to the last.
C11_Witness ==
    /\ last.op = "cycle_client"
    /\ last.dir = Backward
    /\ PreElements = <<1, 2, 3>>
    /\ PreFocus = Some(0)
    /\ Ret = Some(<<1, 3>>)
    /\ clients.focus = Some(2)

\* C13: a drag_client call leaves the length of the client ring and how
\* often each id stands in it as they were; when it returns Some(id), id is
\* the client that was focused before the call and is focused after it.
C13_DragPreserves ==
    last.op = "drag_client" =>
        /\ Returned
        /\ len(self) = PreLen
        /\ \A id \in WinIds : Count(clients.elements, id) = Count(PreElements, id)
        /\ IsSome(Ret) =>
               /\ Ret = focused_client(last.pre)
               /\ Ret = focused_client(self)

\* drag_client(Backward) took the first of three clients across the end.
C13_Witness ==
    /\ last.op = "drag_client"
    /\ last.dir = Backward
    /\ PreElements = <<1, 2, 3>>
    /\ PreFocus = Some(0)
    /\ Ret = Some(1)
    /\ clients.elements = <<2, 3, 1>>
    /\ clients.focus = Some(2)

\* seq with its elements at (0-based) indices i and j exchanged.
Swapped(seq, i, j) ==
    [k \in 1..Len(seq) |->
        IF k = i + 1 THEN seq[j + 1] ELSE IF k = j + 1 THEN seq[i + 1] ELSE seq[k]]

\* The drag `last` was made from the index a step in its direction wraps from.
PreDragWraps ==
    \/ last.dir = Forward /\ Unwrap(PreFocus) = PreLen - 1
    \/ last.dir = Backward /\ Unwrap(PreFocus) = 0

\* C15 as stated: a drag_client that returns Some exchanges the focused
\* client with its cyclic neighbour in the direction, every other client
\* stays at its index, and the focus index becomes the neighbour's old index.
C15_DragSwapsAlways ==
    (last.op = "drag_client" /\ IsSome(Ret)) =>
        /\ clients.elements =
               Swapped(PreElements, Unwrap(PreFocus),
                       StepFrom(Unwrap(PreFocus), PreLen))
        /\ clients.focus = Some(StepFrom(Unwrap(PreFocus), PreLen))

\* C15, amended: a drag_client that returns Some exchanges the focused
\* client with its neighbour in the direction when the step stays inside
\* the ring (every other client stays at its index); when the step crosses
\* the end (last index going Forward, index 0 going Backward) the focused
\* client goes to the other end and every other client moves one index
\* towards the end it left, in their order.  Either way the focus index
\* becomes the cyclic neighbour's old index.
C15_DragSwapsOrRotates ==
    (last.op = "drag_client" /\ IsSome(Ret)) =>
        /\ clients.focus = Some(StepFrom(Unwrap(PreFocus), PreLen))
        /\ clients.elements =
               IF ~PreDragWraps
               THEN Swapped(PreElements, Unwrap(PreFocus),
                            StepFrom(Unwrap(PreFocus), PreLen))
               ELSE IF last.dir = Forward
               THEN <<PreElements[PreLen]>> \o SubSeq(PreElements, 1, PreLen - 1)
               ELSE SubSeq(PreElements, 2, PreLen) \o <<PreElements[1]>>

\* drag_client(Forward) took the last of three clients across the end.
C15_Witness ==
    /\ last.op = "drag_client"
    /\ last.dir = Forward
    /\ PreElements = <<1, 2, 3>>
    /\ PreFocus = Some(2)
    /\ Ret = Some(3)
    /\ clients.elements = <<3, 1, 2>>
    /\ clients.focus = Some(0)

\* The call layout.arrange among the calls `last` made, if it made one.
LayoutCalls == SelectSeq(last.ext, LAMBDA e : e.fn = "layout.arrange")
MapLookups == SelectSeq(last.ext, LAMBDA e : e.fn = "client_map.get")

\* C16: arrange leaves the workspace as it was; on an empty client ring it
\* returns an empty sequence and looks nothing up in the client map; on a
\* non-empty ring whose ids all have an entry it hands the layout the clients
\* in ring order with focused_client() as the focus hint, and returns len()
\* resize actions, one per client.
C16_Arrange ==
    last.op = "arrange" =>
        /\ clients = last.pre.clients
        /\ layouts = last.pre.layouts
        /\ PreLen = 0 =>
               /\ Returned
               /\ Ret = <<>>
               /\ last.ext = <<>>
        /\ (PreLen > 0 /\ \A i \in 1..PreLen : PreElements[i] \in last.map) =>
               /\ Returned
               /\ Len(LayoutCalls) = 1
               /\ Unwrap(LayoutCalls[1].args).clients = PreElements
               /\ Unwrap(LayoutCalls[1].args).focused = focused_client(last.pre)
               /\ Unwrap(LayoutCalls[1].args).layout = Unwrap(Ring_focused(last.pre.layouts))
               /\ [i \in 1..Len(MapLookups) |-> Unwrap(MapLookups[i].id)] = PreElements
               /\ Len(Ret) = PreLen
               /\ \A id \in WinIds :
                      Cardinality({i \in 1..Len(Ret) : Ret[i].id = id})
                          = Count(PreElements, id)

\* arrange laid out three clients, the second of them focused.
C16_Witness ==
    /\ last.op = "arrange"
    /\ Returned
    /\ PreElements = <<3, 2, 1>>
    /\ PreFocus = Some(1)
    /\ Len(Ret) = 3
    /\ Unwrap(LayoutCalls[1].args).focused = Some(2)

\* C17: cycle_layout moves the layout ring's focus one step in the
\* direction, wrapping at the ends (a single layout stays focused), returns
\* the symbol of the layout focused after the move, which layout_symbol()
\* then returns too, and leaves the client ring as it was.
C17_CycleLayout ==
    last.op = "cycle_layout" =>
        /\ Returned
        /\ layouts.elements = last.pre.layouts.elements
        /\ layouts.focus =
               Some(StepFrom(Unwrap(last.pre.layouts.focus), Len(layouts.elements)))
        /\ Ret = layouts.elements[Unwrap(layouts.focus) + 1].symbol
        /\ layout_symbol(self).ret = Ret
        /\ clients = last.pre.clients

\* cycle_layout(Backward) wrapped from the first of three layouts to the
\* last, over a workspace with clients.
C17_Witness ==
    /\ last.op = "cycle_layout"
    /\ last.dir = Backward
    /\ Len(layouts.elements) = 3
    /\ last.pre.layouts.focus = Some(0)
    /\ layouts.focus = Some(2)
    /\ Ret = "[botm]"
    /\ Len(clients.elements) = 2

\* C19: whenever cycle_client returns None, the client ring's contents,
\* order and focus index are what they were before the call.
C19_NoneMeansUnchanged ==
    (last.op = "cycle_client" /\ Returned /\ Ret = None) =>
        clients = last.pre.clients

\* The layout in use sets follow_focus.
FollowFocus ==
    /\ IsSome(Ring_focused(layouts))
    /\ Unwrap(Ring_focused(layouts)).conf.follow_focus

RunLen == Len(run.start.elements)

\* C12: with n >= 2 clients under a layout that does not set follow_focus,
\* n calls of cycle_client(Forward) in a row bring the focus back to the
\* element and index it started on and leave the client order as it was.
C12_CycleRoundTrip ==
    (/\ run.op = "cycle_client"
     /\ run.dir = Forward
     /\ ~FollowFocus
     /\ RunLen >= 2
     /\ run.n = RunLen) =>
        /\ clients.elements = run.start.elements
        /\ clients.focus = run.start.focus
        /\ focused_client(self) = Ring_focused(run.start)

\* Four calls of cycle_client(Forward) in a row on four clients, started on
\* the third.
C12_Witness ==
    /\ run.op = "cycle_client"
    /\ run.dir = Forward
    /\ ~FollowFocus
    /\ run.start = [elements |-> <<4, 3, 2, 1>>, focus |-> Some(2)]
    /\ run.n = 4
    /\ clients = run.start

\* C14: with n >= 2 clients, no two equal, under a layout that does not set
\* follow_focus, n calls of drag_client in one direction in a row bring the
\* client ring back to the order it had, the focus on the same client;
\* [1,2,3,4] focused on 1 goes [2,1,3,4], [2,3,1,4], [2,3,4,1], [1,2,3,4]
\* going Forward, and focused on 3 goes [1,3,2,4], [3,1,2,4], [1,2,4,3],
\* [1,2,3,4] going Backward.
C14_DragRoundTrip ==
    (/\ run.op = "drag_client"
     /\ ~FollowFocus
     /\ RunLen >= 2
     /\ NoTwoEqual(run.start.elements)) =>
        /\ run.n = RunLen =>
               /\ clients.elements = run.start.elements
               /\ clients.focus = run.start.focus
        /\ focused_client(self) = Ring_focused(run.start)
        /\ (/\ run.start = [elements |-> <<1, 2, 3, 4>>, focus |-> Some(0)]
            /\ run.dir = Forward
            /\ run.n <= 4) =>
               clients.elements =
                   <<(<<2, 1, 3, 4>>), (<<2, 3, 1, 4>>),
                     (<<2, 3, 4, 1>>), (<<1, 2, 3, 4>>)>>[run.n]
        /\ (/\ run.start = [elements |-> <<1, 2, 3, 4>>, focus |-> Some(2)]
            /\ run.dir = Backward
            /\ run.n <= 4) =>
               clients.elements =
                   <<(<<1, 3, 2, 4>>), (<<3, 1, 2, 4>>),
                     (<<1, 2, 4, 3>>), (<<1, 2, 3, 4>>)>>[run.n]

\* Four calls of drag_client(Backward) in a row on [1,2,3,4] focused on 3.
C14_Witness ==
    /\ run.op = "drag_client"
    /\ run.dir = Backward
    /\ ~FollowFocus
    /\ run.start = [elements |-> <<1, 2, 3, 4>>, focus |-> Some(2)]
    /\ run.n = 4
    /\ clients = run.start

\* C20: with n >= 2 clients, no two equal, under a layout that sets
\* follow_focus, calls of cycle_client(Forward) in a row move the focus one
\* index a call up to the last index, which n - 1 calls reach from any
\* index; a call made on the last index returns None and leaves the focus
\* there, and no call moves the focus from the last index to index 0.  The
\* same holds of Backward and index 0.
C20_FollowFocusStops ==
    (/\ run.op = "cycle_client"
     /\ FollowFocus
     /\ RunLen >= 2
     /\ NoTwoEqual(run.start.elements)) =>
        LET first == Unwrap(run.start.focus)
            edge == IF run.dir = Forward THEN RunLen - 1 ELSE 0
            want == IF run.dir = Forward
                    THEN (IF first + run.n > edge THEN edge ELSE first + run.n)
                    ELSE (IF first - run.n < edge THEN edge ELSE first - run.n)
        IN  /\ clients.elements = run.start.elements
            /\ clients.focus = Some(want)
            /\ run.n >= RunLen - 1 => clients.focus = Some(edge)
            /\ PreFocus = Some(edge) =>
                   /\ Ret = None
                   /\ clients.focus = Some(edge)
            /\ PreFocus # Some(edge) => Ret = Some(<<Unwrap(focused_client(last.pre)),
                                                    Unwrap(focused_client(self))>>)
            /\ ~(PreFocus = Some(edge) /\ clients.focus = Some(RunLen - 1 - edge))

\* Five calls of cycle_client(Forward) in a row on four clients under a
\* layout that follows focus: the last two find the focus on the last index.
C20_Witness ==
    /\ run.op = "cycle_client"
    /\ run.dir = Forward
    /\ FollowFocus
    /\ run.start = [elements |-> <<4, 3, 2, 1>>, focus |-> Some(0)]
    /\ run.n = 5
    /\ clients.focus = Some(3)
    /\ Ret = None

\* C18: if the caller puts an id in its registry when it calls add_client(id)
\* and takes it out only after remove_client(id) or remove_focused_client()
\* has returned it, then after any add_client, remove_client,
\* remove_focused_client, focus_client, cycle_client and drag_client calls
\* every id in the client ring is in the registry, and arrange never finds
\* an id missing.
C18_RegistryInStep ==
    status # "none" =>
        /\ \A i \in 1..Len(clients.elements) :
               clients.elements[i] \in caller.registry
        /\ last.panic # NoClientEntry

\* C18 (amended): if, besides, the caller never calls add_client with an id
\* the client ring already holds, every id in the client ring is in the
\* registry and arrange never finds an id missing.
C18_RegistryInStepOnce ==
    ~caller.twice => C18_RegistryInStep

\* remove_client(1) returned 1 with two other clients left in the ring, and
\* the caller took 1 out of its registry.
C18_Witness ==
    /\ ~caller.twice
    /\ last.op = "remove_client"
    /\ Ret = Some(1)
    /\ Len(clients.elements) = 2
    /\ caller.registry = {2, 3}

====
